---- MODULE Spec2Model ----
(***************************************************************************)
(* Model of nni.nas.pytorch.mutator.Mutator: the decision cache written by *)
(* reset(), the export() path, the two forward-time callbacks and the      *)
(* helpers _get_decision, _select_with_mask and _tensor_reduction.         *)
(*                                                                         *)
(* A tensor is modelled by its row of values num (one entry per feature)   *)
(* over a common denominator den, so that sum, mean, concat and the        *)
(* scaling by a mask weight are computed exactly.                          *)
(***************************************************************************)
EXTENDS Integers, Sequences, FiniteSets, TLC

(***************************************************************************)
(* Bounds of the model.                                                    *)
(***************************************************************************)
\* total number of mask entries of one sample_search() result
MaxCells == 2
\* largest number of candidates of a choice site / length of a tensor_list
MaxN == 2
\* total number of mask entries of one sample_final() result
MaxFinalCells == 1
\* longest mask, candidate list and tensor list given to the helpers directly
MaxLen == 3

(***************************************************************************)
(* Values.                                                                 *)
(***************************************************************************)
Keys == {"k1", "k2"}

Reductions == {"none", "sum", "mean", "concat", "max"}

BoolType == "torch.BoolTensor"
FloatType == "torch.FloatTensor"
LongType == "torch.LongTensor"
CudaFloatType == "torch.cuda.FloatTensor"
DoubleType == "torch.DoubleTensor"

\* mask weights of a float mask
Weights == {0, 2}

\* the tensor.type() names the model draws masks from
TensorTypes == {BoolType, FloatType, LongType}

\* Python's  sub in name  on the type names above
Contains(sub, name) ==
    CASE sub = "BoolTensor" -> name \in {BoolType}
      [] sub = "FloatTensor" -> name \in {FloatType, CudaFloatType}
      [] OTHER -> FALSE

Tensor(v) == [num |-> v, den |-> 1]

NoTensor == [num |-> <<>>, den |-> 1]

\* tensor * m  for a mask entry m
Scale(t, m) == [num |-> [i \in DOMAIN t.num |-> t.num[i] * m], den |-> t.den]

\* a + b, elementwise
Add(a, b) == [num |-> [i \in DOMAIN a.num |-> a.num[i] + b.num[i]], den |-> a.den]

RECURSIVE TensorSum(_)
\* Python's sum(tensor_list), for a non-empty list
TensorSum(list) ==
    IF Len(list) = 1 THEN list[1] ELSE Add(TensorSum(SubSeq(list, 1, Len(list) - 1)), list[Len(list)])

\* sum(tensor_list) / len(tensor_list)
TensorMean(list) == [num |-> TensorSum(list).num, den |-> TensorSum(list).den * Len(list)]

RECURSIVE TensorCat(_)
\* torch.cat(tensor_list, dim=1)
TensorCat(list) ==
    IF list = <<>> THEN NoTensor
    ELSE [num |-> list[1].num \o TensorCat(Tail(list)).num, den |-> list[1].den]

(***************************************************************************)
(* Masks and samples.                                                      *)
(***************************************************************************)
ValuesOf(type) ==
    CASE type = BoolType -> BOOLEAN
      [] type \in {FloatType, CudaFloatType, DoubleType} -> Weights
      [] OTHER -> {1}

MasksOfLen(types, L) ==
    UNION {{[type |-> t, vals |-> v] : v \in [1..L -> ValuesOf(t)]} : t \in types}

NoMask == [type |-> "", vals |-> <<>>]

RECURSIVE Cells(_)
\* total number of mask entries of a mapping
Cells(s) ==
    IF DOMAIN s = {} THEN 0
    ELSE LET k == CHOOSE k \in DOMAIN s : TRUE
         IN  Len(s[k].vals) + Cells([j \in DOMAIN s \ {k} |-> s[j]])

Mappings(types, cells) ==
    LET masks == UNION {MasksOfLen(types, L) : L \in 0..cells}
    IN  {s \in UNION {[D -> masks] : D \in SUBSET Keys} : Cells(s) <= cells}

EmptyCache == [k \in {} |-> NoMask]

\* what an implementation of sample_search() may return: masks of one tensor type
Samples == UNION {Mappings({t}, MaxCells) : t \in TensorTypes}

\* what an implementation of sample_final() may return
FinalSamples == Mappings({BoolType}, MaxFinalCells)

(***************************************************************************)
(* State.                                                                  *)
(***************************************************************************)
VARIABLES
    cache,       \* self._cache: key -> mask
    resetDone,   \* history: some reset() has completed
    lastSample,  \* history: what sample_search() returned to the last completed reset()
    op,          \* the last call made on the mutator
    site,        \* its mutable: key, number of candidates, reduction
    tensors,     \* its tensor_list (input choice, _tensor_reduction) or the candidates' tensors
    outcome,     \* "ok" when it returned, else the error it raised
    out,         \* the output it returned
    mask,        \* the mask it returned, or was given
    applied,     \* the candidates map_fn was called on during the call, in call order
    final,       \* history: what sample_final() returned to the last export()
    exported     \* what the last export() returned

vars == <<cache, resetDone, lastSample, op, site, tensors, outcome, out, mask, applied,
          final, exported>>

NoSite == [key |-> "", n |-> 0, reduction |-> ""]

\* the values _tensor_reduction returns: the list itself, None, or one tensor
ListResult(list) == [tag |-> "list", list |-> list, t |-> NoTensor]
NoneResult == [tag |-> "None", list |-> <<>>, t |-> NoTensor]
TensorResult(t) == [tag |-> "tensor", list |-> <<>>, t |-> t]

\* the inputs of a LayerChoice forward
InputX == 1

\* choice(*inputs) for the i-th candidate operation of a LayerChoice
OpApply(i, x) == Tensor(<<10 * i + x>>)

\* the i-th tensor of a tensor_list
TensorAt(i) == Tensor(<<100 + i>>)

TensorList(len) == [i \in 1..len |-> TensorAt(i)]

(***************************************************************************)
(* Helpers of the class.                                                   *)
(***************************************************************************)
\* a _get_decision that answers a miss with an empty decision instead of raising
GetDecisionDefault(c, mutable) ==
    IF mutable.key \notin DOMAIN c
    THEN [err |-> "ok", result |-> [type |-> BoolType, vals |-> <<>>]]
    ELSE [err |-> "ok", result |-> c[mutable.key]]

\* _get_decision: raises when mutable.key is not in the cache
GetDecision(c, mutable) ==
    IF mutable.key \notin DOMAIN c
    THEN [err |-> "cache_miss", result |-> NoMask]
    ELSE [err |-> "ok", result |-> c[mutable.key]]

\* a selection that calls map_fn on every candidate, whatever its mask entry
ZipFilterAll(ncand, m, isBool, i) ==
    [j \in 1..(IF ncand <= Len(m.vals) THEN ncand ELSE Len(m.vals)) |-> j]

RECURSIVE ZipFilter(_, _, _, _)
\* the positions i, in order, of  zip(candidates, mask)  whose entry passes  if m
ZipFilter(ncand, m, isBool, i) ==
    IF i > ncand \/ i > Len(m.vals) THEN <<>>
    ELSE (IF (IF isBool THEN m.vals[i] ELSE m.vals[i] # 0) THEN <<i>> ELSE <<>>)
         \o ZipFilter(ncand, m, isBool, i + 1)

\* a _select_with_mask whose bool branch lost its  if m
SelectWithMaskNoFilter(candidates, m) ==
    IF Contains("BoolTensor", m.type)
    THEN LET idx == ZipFilterAll(Len(candidates), m, TRUE, 1)
         IN  [err |-> "ok", applied |-> idx,
              out |-> [j \in 1..Len(idx) |-> candidates[idx[j]]]]
    ELSE IF Contains("FloatTensor", m.type)
    THEN LET idx == ZipFilter(Len(candidates), m, FALSE, 1)
         IN  [err |-> "ok", applied |-> idx,
              out |-> [j \in 1..Len(idx) |-> Scale(candidates[idx[j]], m.vals[idx[j]])]]
    ELSE [err |-> "bad_mask", applied |-> <<>>, out |-> <<>>]

\* a _select_with_mask whose float branch lost its  * m
SelectWithMaskUnweighted(candidates, m) ==
    IF Contains("BoolTensor", m.type) \/ Contains("FloatTensor", m.type)
    THEN LET idx == ZipFilter(Len(candidates), m, Contains("BoolTensor", m.type), 1)
         IN  [err |-> "ok", applied |-> idx,
              out |-> [j \in 1..Len(idx) |-> candidates[idx[j]]]]
    ELSE [err |-> "bad_mask", applied |-> <<>>, out |-> <<>>]

\* _select_with_mask; candidates[i] is what map_fn(*cand) returns for the i-th candidate
SelectWithMask(candidates, m) ==
    IF Contains("BoolTensor", m.type)
    THEN LET idx == ZipFilter(Len(candidates), m, TRUE, 1)
         IN  [err |-> "ok", applied |-> idx,
              out |-> [j \in 1..Len(idx) |-> candidates[idx[j]]]]
    ELSE IF Contains("FloatTensor", m.type)
    THEN LET idx == ZipFilter(Len(candidates), m, FALSE, 1)
         IN  [err |-> "ok", applied |-> idx,
              out |-> [j \in 1..Len(idx) |-> Scale(candidates[idx[j]], m.vals[idx[j]])]]
    ELSE [err |-> "bad_mask", applied |-> <<>>, out |-> <<>>]

\* a _tensor_reduction that sums under a policy it does not know
TensorReductionDefaultSum(reduction_type, tensor_list) ==
    IF reduction_type = "none" THEN [err |-> "ok", ret |-> ListResult(tensor_list)]
    ELSE IF tensor_list = <<>> THEN [err |-> "ok", ret |-> NoneResult]
    ELSE IF Len(tensor_list) = 1 THEN [err |-> "ok", ret |-> TensorResult(tensor_list[1])]
    ELSE IF reduction_type = "mean" THEN [err |-> "ok", ret |-> TensorResult(TensorMean(tensor_list))]
    ELSE IF reduction_type = "concat" THEN [err |-> "ok", ret |-> TensorResult(TensorCat(tensor_list))]
    ELSE [err |-> "ok", ret |-> TensorResult(TensorSum(tensor_list))]

\* a _tensor_reduction without the one-element shortcut
TensorReductionNoSingle(reduction_type, tensor_list) ==
    IF reduction_type = "none" THEN [err |-> "ok", ret |-> ListResult(tensor_list)]
    ELSE IF tensor_list = <<>> THEN [err |-> "ok", ret |-> NoneResult]
    ELSE IF reduction_type = "sum" THEN [err |-> "ok", ret |-> TensorResult(TensorSum(tensor_list))]
    ELSE IF reduction_type = "mean" THEN [err |-> "ok", ret |-> TensorResult(TensorMean(tensor_list))]
    ELSE IF reduction_type = "concat" THEN [err |-> "ok", ret |-> TensorResult(TensorCat(tensor_list))]
    ELSE [err |-> "bad_reduction", ret |-> NoneResult]

\* _tensor_reduction
TensorReduction(reduction_type, tensor_list) ==
    IF reduction_type = "none" THEN [err |-> "ok", ret |-> ListResult(tensor_list)]
    ELSE IF tensor_list = <<>> THEN [err |-> "ok", ret |-> NoneResult]
    ELSE IF Len(tensor_list) = 1 THEN [err |-> "ok", ret |-> TensorResult(tensor_list[1])]
    ELSE IF reduction_type = "sum" THEN [err |-> "ok", ret |-> TensorResult(TensorSum(tensor_list))]
    ELSE IF reduction_type = "mean" THEN [err |-> "ok", ret |-> TensorResult(TensorMean(tensor_list))]
    ELSE IF reduction_type = "concat" THEN [err |-> "ok", ret |-> TensorResult(TensorCat(tensor_list))]
    ELSE [err |-> "bad_reduction", ret |-> NoneResult]

\* the part of both callbacks after the length assertion
SelectAndReduce(mutable, candidates, m) ==
    LET sel == SelectWithMask(candidates, m)
        red == TensorReduction(mutable.reduction, sel.out)
    IN  IF sel.err # "ok"
        THEN [outcome |-> sel.err, out |-> NoneResult, mask |-> NoMask, applied |-> sel.applied]
        ELSE IF red.err # "ok"
        THEN [outcome |-> red.err, out |-> NoneResult, mask |-> NoMask, applied |-> sel.applied]
        ELSE [outcome |-> "ok", out |-> red.ret, mask |-> m, applied |-> sel.applied]

Raised(err) == [outcome |-> err, out |-> NoneResult, mask |-> NoMask, applied |-> <<>>]

\* on_forward_layer_choice(mutable, *inputs)
OnForwardLayerChoice(c, mutable, x) ==
    LET d == GetDecision(c, mutable)
    IN  IF d.err # "ok" THEN Raised(d.err)
        ELSE IF Len(d.result.vals) # mutable.n THEN Raised("bad_length")
        ELSE SelectAndReduce(mutable, [i \in 1..mutable.n |-> OpApply(i, x)], d.result)

\* an on_forward_input_choice that checks the mask against len(tensor_list)
InputChoiceChecksTensorList(c, mutable, tensor_list) ==
    LET d == GetDecision(c, mutable)
    IN  IF d.err # "ok" THEN Raised(d.err)
        ELSE IF Len(d.result.vals) # Len(tensor_list) THEN Raised("bad_length")
        ELSE SelectAndReduce(mutable, tensor_list, d.result)

\* on_forward_input_choice(mutable, tensor_list)
OnForwardInputChoice(c, mutable, tensor_list) ==
    LET d == GetDecision(c, mutable)
    IN  IF d.err # "ok" THEN Raised(d.err)
        ELSE IF Len(d.result.vals) # mutable.n THEN Raised("bad_length")
        ELSE SelectAndReduce(mutable, tensor_list, d.result)

\* a reset() that drops what sample_search() returned
ResetCacheKeep(c, sampled) == c

\* a reset() that updates the cache in place with what sample_search() returned
ResetCacheMerge(c, sampled) ==
    [k \in DOMAIN c \cup DOMAIN sampled |-> IF k \in DOMAIN sampled THEN sampled[k] ELSE c[k]]

\* the cache reset() leaves, given what sample_search() returned
ResetCache(c, sampled) == sampled

\* an export() that returns the search-time cache
ExportFromCache(c, sampled) == c

\* what export() returns, given what sample_final() returned
ExportResult(c, sampled) == sampled

(***************************************************************************)
(* Operations.                                                             *)
(***************************************************************************)
Init ==
    /\ cache = EmptyCache
    /\ resetDone = FALSE
    /\ lastSample = EmptyCache
    /\ op = "init"
    /\ site = NoSite
    /\ tensors = <<>>
    /\ outcome = "ok"
    /\ out = NoneResult
    /\ mask = NoMask
    /\ applied = <<>>
    /\ final = EmptyCache
    /\ exported = EmptyCache

NoCall ==
    /\ site' = NoSite
    /\ tensors' = <<>>
    /\ out' = NoneResult
    /\ mask' = NoMask
    /\ applied' = <<>>
    /\ final' = EmptyCache
    /\ exported' = EmptyCache

\* reset() with a sample_search() that returns
Reset ==
    \E sampled \in Samples :
        /\ cache' = ResetCache(cache, sampled)
        /\ resetDone' = TRUE
        /\ lastSample' = sampled
        /\ op' = "reset"
        /\ outcome' = "ok"
        /\ NoCall

\* reset() with a sample_search() that raises (as the one of this class does)
ResetRaises ==
    /\ op' = "reset"
    /\ outcome' = "sample_error"
    /\ NoCall
    /\ UNCHANGED <<cache, resetDone, lastSample>>

\* export() with a sample_final() that returns
Export ==
    \E sampled \in FinalSamples :
        /\ op' = "export"
        /\ outcome' = "ok"
        /\ final' = sampled
        /\ exported' = ExportResult(cache, sampled)
        /\ site' = NoSite
        /\ tensors' = <<>>
        /\ out' = NoneResult
        /\ mask' = NoMask
        /\ applied' = <<>>
        /\ UNCHANGED <<cache, resetDone, lastSample>>

\* export() with a sample_final() that raises (as the one of this class does)
ExportRaises ==
    /\ op' = "export"
    /\ outcome' = "sample_error"
    /\ NoCall
    /\ UNCHANGED <<cache, resetDone, lastSample>>

ForwardLayerChoice ==
    \E k \in Keys, n \in 0..MaxN, r \in Reductions :
        LET mutable == [key |-> k, n |-> n, reduction |-> r]
            res == OnForwardLayerChoice(cache, mutable, InputX)
        IN  /\ op' = "layer"
            /\ site' = mutable
            /\ tensors' = [i \in 1..n |-> OpApply(i, InputX)]
            /\ outcome' = res.outcome
            /\ out' = res.out
            /\ mask' = res.mask
            /\ applied' = res.applied
            /\ final' = EmptyCache
            /\ exported' = EmptyCache
            /\ UNCHANGED <<cache, resetDone, lastSample>>

ForwardInputChoice ==
    \E k \in Keys, n \in 0..MaxN, len \in 0..MaxN, r \in Reductions :
        LET mutable == [key |-> k, n |-> n, reduction |-> r]
            res == OnForwardInputChoice(cache, mutable, TensorList(len))
        IN  /\ op' = "input"
            /\ site' = mutable
            /\ tensors' = TensorList(len)
            /\ outcome' = res.outcome
            /\ out' = res.out
            /\ mask' = res.mask
            /\ applied' = res.applied
            /\ final' = EmptyCache
            /\ exported' = EmptyCache
            /\ UNCHANGED <<cache, resetDone, lastSample>>

Next ==
    \/ Reset
    \/ ResetRaises
    \/ Export
    \/ ExportRaises
    \/ ForwardLayerChoice
    \/ ForwardInputChoice

Spec == Init /\ [][Next]_vars

(***************************************************************************)
(* The helpers called directly, on inputs of their own.                    *)
(***************************************************************************)
\* the tensor.type() names of the masks given to _select_with_mask directly
HelperTypes == TensorTypes \cup {CudaFloatType, DoubleType}

TensorPool == {Tensor(<<1>>), Tensor(<<2>>), Tensor(<<3>>)}

\* _select_with_mask(map_fn, candidates, mask)
SelectCall ==
    \E L \in 0..MaxLen, n \in 0..MaxLen :
        \E m \in MasksOfLen(HelperTypes, L) :
            LET sel == SelectWithMask(TensorList(n), m)
            IN  /\ op' = "select"
                /\ site' = NoSite
                /\ tensors' = TensorList(n)
                /\ mask' = m
                /\ outcome' = sel.err
                /\ out' = ListResult(sel.out)
                /\ applied' = sel.applied
                /\ final' = EmptyCache
                /\ exported' = EmptyCache
                /\ UNCHANGED <<cache, resetDone, lastSample>>

\* _tensor_reduction(reduction_type, tensor_list)
ReduceCall ==
    \E r \in Reductions, len \in 0..MaxLen :
        \E list \in [1..len -> TensorPool] :
            LET red == TensorReduction(r, list)
            IN  /\ op' = "reduce"
                /\ site' = [key |-> "", n |-> 0, reduction |-> r]
                /\ tensors' = list
                /\ mask' = NoMask
                /\ outcome' = red.err
                /\ out' = red.ret
                /\ applied' = <<>>
                /\ final' = EmptyCache
                /\ exported' = EmptyCache
                /\ UNCHANGED <<cache, resetDone, lastSample>>

NextHelpers ==
    \/ SelectCall
    \/ ReduceCall

SpecHelpers == Init /\ [][NextHelpers]_vars

(***************************************************************************)
(* Properties.                                                             *)
(***************************************************************************)
Forward == op \in {"layer", "input"}

Recognized == {"none", "sum", "mean", "concat"}

IsBoolMask(m) == m.type = BoolType

IsFloatMask(m) == m.type \in {FloatType, CudaFloatType}

\* entry i of mask m selects its candidate: true, or a non-zero weight
Selects(m, i) == (IsBoolMask(m) /\ m.vals[i]) \/ (IsFloatMask(m) /\ m.vals[i] # 0)

Min(a, b) == IF a <= b THEN a ELSE b

\* the candidates, among ncand, that mask m selects
Selected(m, ncand) == {i \in 1..Min(ncand, Len(m.vals)) : Selects(m, i)}

\* the place of selected candidate i among the selected ones
Rank(m, i) == Cardinality({k \in 1..i : Selects(m, k)})

Increasing(seq) == \A j, k \in DOMAIN seq : j < k => seq[j] < seq[k]

\* the mask the cache holds for the site of the last call
Cached == cache[site.key]

\* C1: a forward callback for a site whose key is not in the decision cache raises the
\* cache-miss error and applies no candidate; so does every forward callback made
\* before the first reset().
C1_CacheMissRaises ==
    /\ (Forward /\ site.key \notin DOMAIN cache)
           => (outcome = "cache_miss" /\ applied = <<>> /\ out = NoneResult /\ mask = NoMask)
    /\ (Forward /\ ~resetDone) => outcome = "cache_miss"

C1_Witness ==
    /\ Forward /\ resetDone /\ cache # EmptyCache
    /\ site.key \notin DOMAIN cache
    /\ site.n > 0
    /\ outcome = "cache_miss"

\* C2 as stated: after a completed reset(), on_forward_layer_choice for a site whose key is
\* in the sampled mapping (with a non-empty bool or float mask, the site having at least one
\* choice) returns without raising any error.
C2_Original ==
    (op = "layer" /\ resetDone /\ site.key \in DOMAIN lastSample
                 /\ (IsBoolMask(lastSample[site.key]) \/ IsFloatMask(lastSample[site.key]))
                 /\ site.n > 0 /\ lastSample[site.key].vals # <<>>)
        => outcome = "ok"

\* C2 amended: after a completed reset(), on_forward_layer_choice for a site whose key is in
\* the sampled mapping never raises the cache-miss error; it returns (output, mask), with
\* the sampled mask, exactly when that mask has as many entries as the site has choices, is
\* a bool or float mask, and the reduction is a known one or fewer than two candidates are
\* selected.
C2_PresentKeySucceeds ==
    (op = "layer" /\ resetDone /\ site.key \in DOMAIN lastSample) =>
        /\ outcome # "cache_miss"
        /\ outcome = "ok" <=>
               /\ Len(lastSample[site.key].vals) = site.n
               /\ IsBoolMask(lastSample[site.key]) \/ IsFloatMask(lastSample[site.key])
               /\ \/ site.reduction \in Recognized
                  \/ Cardinality(Selected(lastSample[site.key], site.n)) < 2
        /\ outcome = "ok" => mask = lastSample[site.key]

C2_Witness ==
    /\ op = "layer" /\ resetDone /\ site.key \in DOMAIN lastSample
    /\ outcome = "ok"
    /\ Len(applied) = 2

\* C3: the decision cache is empty while no reset() has completed and otherwise is exactly
\* the mapping sample_search returned to the most recent completed reset(); forward
\* callbacks, export() and a reset() whose sample_search raises do not change it.
C3_CacheIsLastSample ==
    /\ ~resetDone => cache = EmptyCache
    /\ resetDone => cache = lastSample

C3_Witness ==
    /\ resetDone
    /\ op = "reset" /\ outcome = "sample_error"
    /\ DOMAIN cache = {"k2"}

\* C4: export() returns exactly what sample_final returned, whatever the cache holds, and
\* leaves the cache as it was.
C4_ExportIndependent ==
    [][op' = "export" =>
          /\ cache' = cache
          /\ outcome' = "ok" => exported' = final']_vars

C4_Witness ==
    /\ op = "export" /\ outcome = "ok"
    /\ DOMAIN cache = {"k1"}
    /\ DOMAIN exported = {"k2"}

\* C5: a forward callback whose cached mask has a length other than the site's declared
\* number of candidates raises the mask-length error, before any candidate is applied.
C5_LengthMismatchRaises ==
    (Forward /\ site.key \in DOMAIN cache /\ Len(Cached.vals) # site.n)
        => (outcome = "bad_length" /\ applied = <<>> /\ out = NoneResult)

C5_Witness ==
    /\ op = "input" /\ site.key \in DOMAIN cache
    /\ Len(Cached.vals) # site.n
    /\ Len(Cached.vals) = Len(tensors)
    /\ Selected(Cached, Len(tensors)) # {}
    /\ outcome = "bad_length"

\* C6 as stated: a forward callback on a site with an unknown reduction policy raises the
\* unrecognized-reduction error for every cached (bool or float) mask of the right length,
\* the site having at least one candidate.
C6_Original ==
    (Forward /\ site.key \in DOMAIN cache /\ Len(Cached.vals) = site.n
             /\ (IsBoolMask(Cached) \/ IsFloatMask(Cached))
             /\ site.n > 0
             /\ site.reduction \notin Recognized)
        => outcome = "bad_reduction"

\* C6 amended: a forward callback on a site with an unknown reduction policy, with a cached
\* bool or float mask of the right length, raises the unrecognized-reduction error exactly
\* when the mask selects two or more of the candidates passed; when it selects none the
\* callback returns None, and when it selects one it returns that one output unreduced.
\* A mask of another tensor type raises the unrecognized-mask error.
C6_UnknownReduction ==
    (Forward /\ site.key \in DOMAIN cache /\ Len(Cached.vals) = site.n
             /\ site.reduction \notin Recognized)
        => IF ~(IsBoolMask(Cached) \/ IsFloatMask(Cached)) THEN outcome = "bad_mask"
           ELSE LET sel == Selected(Cached, Len(tensors))
                IN  /\ Cardinality(sel) >= 2 => outcome = "bad_reduction"
                    /\ sel = {} => (outcome = "ok" /\ out = NoneResult)
                    /\ Cardinality(sel) = 1 =>
                           /\ outcome = "ok"
                           /\ out.tag = "tensor"
                           /\ \A i \in sel :
                                  out.t = IF IsBoolMask(Cached) THEN tensors[i]
                                          ELSE Scale(tensors[i], Cached.vals[i])

C6_Witness ==
    /\ Forward /\ site.key \in DOMAIN cache /\ Len(Cached.vals) = site.n
    /\ site.reduction \notin Recognized
    /\ Cardinality(Selected(Cached, Len(tensors))) >= 2
    /\ outcome = "bad_reduction"

\* C7 as stated: _tensor_reduction returns None for an empty list and the single element for
\* a one-element list, whatever the reduction policy.
C7_Original ==
    op = "reduce" =>
        /\ tensors = <<>> => (outcome = "ok" /\ out = NoneResult)
        /\ Len(tensors) = 1 => (outcome = "ok" /\ out = TensorResult(tensors[1]))

\* C7 amended: under every reduction policy other than none, _tensor_reduction returns None
\* for an empty list and the single element for a one-element list; under none it returns
\* the list itself, empty or not.
C7_EmptyAndSingle ==
    op = "reduce" =>
        /\ (site.reduction # "none" /\ tensors = <<>>) => (outcome = "ok" /\ out = NoneResult)
        /\ (site.reduction # "none" /\ Len(tensors) = 1)
               => (outcome = "ok" /\ out = TensorResult(tensors[1]))
        /\ site.reduction = "none" => (outcome = "ok" /\ out = ListResult(tensors))

C7_Witness ==
    /\ op = "reduce"
    /\ site.reduction \notin Recognized
    /\ Len(tensors) = 1
    /\ out = TensorResult(tensors[1])

\* C8: for a bool mask of length N and N candidates, _select_with_mask returns exactly the
\* mapped candidates at the positions where the mask is true, in their original order.
C8_BoolSelect ==
    (op = "select" /\ IsBoolMask(mask) /\ Len(mask.vals) = Len(tensors)) =>
        /\ outcome = "ok"
        /\ Len(out.list) = Cardinality({i \in DOMAIN tensors : mask.vals[i]})
        /\ \A i \in DOMAIN tensors : mask.vals[i] => out.list[Rank(mask, i)] = tensors[i]

C8_Witness ==
    /\ op = "select" /\ IsBoolMask(mask) /\ Len(mask.vals) = Len(tensors)
    /\ Len(tensors) = 3
    /\ ~mask.vals[1] /\ mask.vals[2] /\ mask.vals[3]
    /\ out.list = <<tensors[2], tensors[3]>>

\* C9: for a float mask, _select_with_mask returns, in original order, one entry per
\* candidate whose weight is non-zero, equal to that candidate's output times its weight;
\* a candidate whose weight is zero contributes no entry.
C9_FloatSelect ==
    (op = "select" /\ IsFloatMask(mask)) =>
        LET n == Min(Len(tensors), Len(mask.vals))
        IN  /\ outcome = "ok"
            /\ Len(out.list) = Cardinality({i \in 1..n : mask.vals[i] # 0})
            /\ \A i \in 1..n :
                   mask.vals[i] # 0 => out.list[Rank(mask, i)] = Scale(tensors[i], mask.vals[i])

C9_Witness ==
    /\ op = "select" /\ IsFloatMask(mask) /\ Len(mask.vals) = Len(tensors)
    /\ Len(tensors) = 3
    /\ mask.vals[1] # 0 /\ mask.vals[2] = 0 /\ mask.vals[3] # 0
    /\ out.list = <<Scale(tensors[1], mask.vals[1]), Scale(tensors[3], mask.vals[3])>>

\* C10 as stated: during on_forward_layer_choice a candidate operation is executed if and
\* only if its mask entry selects it.
C10_Original ==
    (op = "layer" /\ site.key \in DOMAIN cache) =>
        \A i \in 1..Min(site.n, Len(Cached.vals)) :
            (\E j \in DOMAIN applied : applied[j] = i) <=> Selects(Cached, i)

\* C10 amended: during an on_forward_layer_choice whose cached mask has as many entries as
\* the site has choices, a candidate operation is executed if and only if its mask entry
\* selects it, each selected one exactly once and in candidate order; a call that raises
\* the cache-miss or the mask-length error executes no operation.
C10_OnlySelectedExecuted ==
    op = "layer" =>
        IF site.key \in DOMAIN cache /\ Len(Cached.vals) = site.n
        THEN /\ {applied[j] : j \in DOMAIN applied} = Selected(Cached, site.n)
             /\ Increasing(applied)
        ELSE applied = <<>>

C10_Witness ==
    /\ op = "layer" /\ site.key \in DOMAIN cache /\ Len(Cached.vals) = site.n
    /\ site.n = 2
    /\ IsFloatMask(Cached)
    /\ applied = <<2>>

====
